---------------------------- MODULE Spec2Model ----------------------------
(***************************************************************************)
(* A model of rebuild-gobin (src/main.go).                                 *)
(*                                                                         *)
(* Three specifications share the module:                                  *)
(*   SpecParse    the scanning loop of inspectGobin, line by line          *)
(*   Spec         run: discovery, the loop over the programs, the report   *)
(*   SpecRebuild  rebuild called on an arbitrary specification string      *)
(*                                                                         *)
(* A Go string is a sequence of one-character strings, so that prefixes,   *)
(* substrings and whitespace tokens are computed, not assumed.  The empty  *)
(* Go string is <<>>.                                                      *)
(***************************************************************************)
EXTENDS Integers, Sequences, FiniteSets

VARIABLES
    pc,         \* position in the function the specification follows
    \* ---- inspectGobin
    text,       \* the lines scanner.Text() has returned so far
    current,    \* the candidate under construction
    out,        \* the records appended so far / returned
    hist,       \* history: the candidate as it stood at each boundary line and at the end of input
    \* ---- run
    upgrade,    \* the -u flag
    programs,   \* what inspectGobin returned
    gover,      \* what goVersion returned
    i,          \* 1-based index of the record the loop is at
    skipped,
    failed,
    tempDir,
    deferred,   \* the directories a deferred os.RemoveAll is registered for
    existing,   \* the scratch directories that exist on disk
    mkdirs,     \* how many times os.MkdirTemp created a directory
    installs,   \* the log of "go install" invocations
    report,     \* the lines of the final report
    ret,        \* what run returned
    \* ---- rebuild called alone
    spec,       \* the specification handed to rebuild
    rerr        \* what rebuild returned

parseVars   == <<text, current, out, hist>>
runVars     == <<upgrade, programs, gover, i, skipped, failed, tempDir,
                 deferred, existing, mkdirs, installs, report, ret>>
rebuildVars == <<spec, rerr>>
vars        == <<pc, parseVars, runVars, rebuildVars>>

(***************************************************************************)
(* Bounds                                                                  *)
(***************************************************************************)
MaxLines    == 6
MaxPrograms == 3
MaxSpecLen  == 3

(***************************************************************************)
(* Strings                                                                 *)
(***************************************************************************)
Min(S) == CHOOSE k \in S : \A j \in S : k <= j

\* strings.HasPrefix
HasPrefix(s, prefix) ==
    /\ Len(prefix) <= Len(s)
    /\ SubSeq(s, 1, Len(prefix)) = prefix

\* strings.Index: the 0-based index of the first occurrence of sep, or -1
Index(s, sep) ==
    LET hits == {k \in 0..(Len(s) - Len(sep)) : SubSeq(s, k + 1, k + Len(sep)) = sep}
    IN  IF hits = {} THEN -1 ELSE Min(hits)

\* s[n:] for a 0-based n
SliceFrom(s, n) == SubSeq(s, n + 1, Len(s))

\* strings.ContainsRune
ContainsRune(s, r) == \E k \in 1..Len(s) : s[k] = r

IsSpace(c) == c \in {" ", "\t"}

RECURSIVE FieldsFrom(_, _, _, _)
FieldsFrom(s, k, tok, acc) ==
    IF k > Len(s)
    THEN IF tok = <<>> THEN acc ELSE Append(acc, tok)
    ELSE IF IsSpace(s[k])
         THEN FieldsFrom(s, k + 1, <<>>, IF tok = <<>> THEN acc ELSE Append(acc, tok))
         ELSE FieldsFrom(s, k + 1, Append(tok, s[k]), acc)

\* strings.Fields: the maximal runs of non-space characters
Fields(s) == FieldsFrom(s, 1, <<>>, <<>>)

ColonSpace == <<":", " ">>
KwPath     == <<"p", "a", "t", "h">>
KwMod      == <<"m", "o", "d">>
Devel      == <<"(", "d", "e", "v", "e", "l", ")">>
Latest     == <<"l", "a", "t", "e", "s", "t">>
At         == "@"

(***************************************************************************)
(* type program                                                            *)
(***************************************************************************)
Program(p, m, g) == [path |-> p, modVersion |-> m, goVersion |-> g]

ZeroProgram == Program(<<>>, <<>>, <<>>)

\* mutant: the toolchain version is not looked at
validNoGoVersion(p) == p.path # <<>> /\ p.modVersion # <<>>

valid(p) == p.path # <<>> /\ p.modVersion # <<>> /\ p.goVersion # <<>>

(***************************************************************************)
(* inspectGobin: the output of "go version -m dir", scanned line by line   *)
(***************************************************************************)
\* the install directory handed to inspectGobin
Dir == <<"/", "b">>

\* "/b/t: g: 1"   a binary's line; ": " occurs twice
LineBin    == <<"/", "b", "/", "t", ":", " ", "g", ":", " ", "1">>
\* "/bx"          begins with the directory, holds no ": "
LineNoSep  == <<"/", "b", "x">>
\* "\tpath\tp"
LinePathP  == <<"\t", "p", "a", "t", "h", "\t", "p">>
\* "path q"
LinePathQ  == <<"p", "a", "t", "h", " ", "q">>
\* "\tmod\tp\tv1\th"   four fields
LineModV1  == <<"\t", "m", "o", "d", "\t", "p", "\t", "v", "1", "\t", "h">>
\* "mod p"             a mod line with no version
LineModShort == <<"m", "o", "d", " ", "p">>

Catalogue == {LineBin, LineNoSep, LinePathP, LinePathQ, LineModV1, LineModShort}

\* the goVersion of the candidate a boundary line starts (line 162)
goVersionOf(line) == SliceFrom(line, Index(line, ColonSpace) + 2)

\* strings.HasPrefix(text, dir) (line 157)
IsBoundary(line) == HasPrefix(line, Dir)

\* out after "if current.valid() { out = append(out, current) }"
emit(o, c) == IF valid(c) THEN Append(o, c) ELSE o

\* mutant: the new candidate keeps the previous candidate's path and modVersion
startCandidateKeep(c, line) == [c EXCEPT !.goVersion = goVersionOf(line)]

\* the candidate a boundary line starts (lines 161-163)
startCandidate(c, line) == Program(<<>>, <<>>, goVersionOf(line))

InitParse ==
    /\ pc = "scan"
    /\ text = <<>>
    /\ current = ZeroProgram
    /\ out = <<>>
    /\ hist = <<>>
    /\ upgrade = FALSE /\ programs = <<>> /\ gover = <<>> /\ i = 1
    /\ skipped = <<>> /\ failed = <<>> /\ tempDir = "" /\ deferred = {}
    /\ existing = {} /\ mkdirs = 0 /\ installs = <<>> /\ report = <<>> /\ ret = "none"
    /\ spec = <<>> /\ rerr = "none"

\* scanner.Scan() returns a line that begins with dir (lines 157-165)
ScanBoundary ==
    /\ pc = "scan" /\ Len(text) < MaxLines
    /\ \E line \in Catalogue :
        /\ IsBoundary(line)
        /\ text' = Append(text, line)
        /\ hist' = Append(hist, current)
        /\ out' = emit(out, current)
        /\ current' = startCandidate(current, line)
    /\ UNCHANGED <<pc, runVars, rebuildVars>>

\* a "path" line (lines 166-170)
ScanPath ==
    /\ pc = "scan" /\ Len(text) < MaxLines
    /\ \E line \in Catalogue :
        /\ ~IsBoundary(line)
        /\ Len(Fields(line)) = 2 /\ Fields(line)[1] = KwPath
        /\ text' = Append(text, line)
        /\ current' = [current EXCEPT !.path = Fields(line)[2]]
    /\ UNCHANGED <<pc, out, hist, runVars, rebuildVars>>

\* a "mod" line (lines 171-173)
ScanMod ==
    /\ pc = "scan" /\ Len(text) < MaxLines
    /\ \E line \in Catalogue :
        /\ ~IsBoundary(line)
        /\ ~(Len(Fields(line)) = 2 /\ Fields(line)[1] = KwPath)
        /\ Len(Fields(line)) >= 3 /\ Fields(line)[1] = KwMod
        /\ text' = Append(text, line)
        /\ current' = [current EXCEPT !.modVersion = Fields(line)[3]]
    /\ UNCHANGED <<pc, out, hist, runVars, rebuildVars>>

\* any other line changes nothing (falls through line 173)
ScanOther ==
    /\ pc = "scan" /\ Len(text) < MaxLines
    /\ \E line \in Catalogue :
        /\ ~IsBoundary(line)
        /\ ~(Len(Fields(line)) = 2 /\ Fields(line)[1] = KwPath)
        /\ ~(Len(Fields(line)) >= 3 /\ Fields(line)[1] = KwMod)
        /\ text' = Append(text, line)
    /\ UNCHANGED <<pc, current, out, hist, runVars, rebuildVars>>

\* scanner.Scan() returns false with an error: the next line is longer than
\* the scanner's buffer; inspectGobin returns nil and the error (lines 175-177)
ScanErr ==
    /\ pc = "scan"
    /\ pc' = "err"
    /\ out' = <<>>
    /\ UNCHANGED <<text, current, hist, runVars, rebuildVars>>

\* scanner.Scan() returns false at the end of the input (lines 178-181)
ScanEnd ==
    /\ pc = "scan"
    /\ pc' = "done"
    /\ hist' = Append(hist, current)
    /\ out' = emit(out, current)
    /\ UNCHANGED <<text, current, runVars, rebuildVars>>

NextParse == ScanBoundary \/ ScanPath \/ ScanMod \/ ScanOther \/ ScanErr \/ ScanEnd

SpecParse == InitParse /\ [][NextParse]_vars


(***************************************************************************)
(* rebuild (lines 118-128)                                                 *)
(***************************************************************************)
\* one "go install" invocation: cmd.Run() with cmd.Dir = dir
Cmd(s, dir, ok, rec) == [spec |-> s, dir |-> dir, ok |-> ok, rec |-> rec]

\* mutant: the specification is not looked at
rebuildNoCheck(dir, s, runOk, rec) ==
    [err |-> IF runOk THEN "nil" ELSE "errExit",
     cmds |-> <<Cmd(s, dir, runOk, rec)>>]

\* What rebuild returns and the command it runs, given whether the command
\* exits with success.  rec tells the caller's record, 0 when there is none.
rebuild(dir, s, runOk, rec) ==
    IF s = <<>> \/ ~ContainsRune(s, At)
    THEN [err |-> "errInvalidSpec", cmds |-> <<>>]
    ELSE [err |-> IF runOk THEN "nil" ELSE "errExit",
          cmds |-> <<Cmd(s, dir, runOk, rec)>>]

(***************************************************************************)
(* run (lines 61-116)                                                      *)
(***************************************************************************)
PathP == <<"p">>
PathQ == <<"q">>
V1    == <<"v", "1">>
G1    == <<"g", "1">>
G2    == <<"g", "2">>

GoVersions == {G1, G2}

\* the valid records inspectGobin can return
RunRecords ==
    {Program(p, m, g) : p \in {PathP, PathQ}, m \in {V1, Devel}, g \in GoVersions}

ProgramSeqs == UNION {[1..n -> RunRecords] : n \in 0..MaxPrograms}

\* the names os.MkdirTemp("", "rebuild-gobin-*") can pick
TempNames == {"/tmp/rebuild-gobin-1", "/tmp/rebuild-gobin-2"}

\* mutant: the (devel) check comes before the toolchain check
classifyDevelFirst(u, p, g) ==
    IF p.modVersion = Devel THEN "skipped"
    ELSE IF ~u /\ p.goVersion = g THEN "continue"
    ELSE "rebuild"

\* mutant: a (devel) record is passed over without being recorded
classifyDevelSilent(u, p, g) ==
    IF ~u /\ p.goVersion = g THEN "continue"
    ELSE IF p.modVersion = Devel THEN "continue"
    ELSE "rebuild"

\* what the loop does with a record (lines 78-84)
classify(u, p, g) ==
    IF ~u /\ p.goVersion = g THEN "continue"
    ELSE IF p.modVersion = Devel THEN "skipped"
    ELSE "rebuild"

\* mutant: a scratch directory is made for every rebuild
needTempDirAlways(dir) == TRUE

\* "if tempDir == """ (line 85)
needTempDir(dir) == dir = ""

\* mutant: the -u flag is ignored
targetVersionPinned(u, p) == p.modVersion

\* lines 92-95
targetVersion(u, p) == IF u THEN Latest ELSE p.modVersion

\* fmt.Sprintf("%s@%s", p.path, targetVersion) (line 96)
installSpec(u, p) == p.path \o <<At>> \o targetVersion(u, p)

\* the deferred os.RemoveAll calls, run as run returns (line 90)
runDeferred(ex, df) == ex \ df

HeaderLine(h) == [kind |-> h, s |-> <<>>]
ItemLine(x)   == [kind |-> "item", s |-> x]

\* the log lines of the final report (lines 100-115)
render(sk, fl) ==
    (IF Len(sk) # 0
     THEN <<HeaderLine("skippedHeader")>> \o [k \in 1..Len(sk) |-> ItemLine(sk[k])]
     ELSE <<>>)
    \o
    (IF Len(fl) # 0
     THEN <<HeaderLine("failedHeader")>> \o [k \in 1..Len(fl) |-> ItemLine(fl[k])]
     ELSE <<>>)

Init ==
    /\ pc = "getGobin"
    /\ upgrade \in BOOLEAN
    /\ programs = <<>> /\ gover = <<>> /\ i = 1
    /\ skipped = <<>> /\ failed = <<>> /\ tempDir = ""
    /\ deferred = {} /\ existing = {} /\ mkdirs = 0
    /\ installs = <<>> /\ report = <<>> /\ ret = "none"
    /\ text = <<>> /\ current = ZeroProgram /\ out = <<>> /\ hist = <<>>
    /\ spec = <<>> /\ rerr = "none"

\* run returns err (lines 64, 68, 72, 88) after its deferred calls
ReturnErr(e) ==
    /\ ret' = e
    /\ existing' = runDeferred(existing, deferred)
    /\ pc' = "returned"

\* lines 62-65
GetGobin ==
    /\ pc = "getGobin"
    /\ \/ /\ pc' = "inspectGobin"
          /\ UNCHANGED <<ret, existing>>
       \/ ReturnErr("errGetGobin")
    /\ UNCHANGED <<upgrade, programs, gover, i, skipped, failed, tempDir,
                   deferred, mkdirs, installs, report, parseVars, rebuildVars>>

\* lines 66-69
InspectGobin ==
    /\ pc = "inspectGobin"
    /\ \/ /\ programs' \in ProgramSeqs
          /\ pc' = "goVersion"
          /\ UNCHANGED <<ret, existing>>
       \/ /\ ReturnErr("errInspectGobin")
          /\ UNCHANGED programs
    /\ UNCHANGED <<upgrade, gover, i, skipped, failed, tempDir,
                   deferred, mkdirs, installs, report, parseVars, rebuildVars>>

\* lines 70-73
GoVersion ==
    /\ pc = "goVersion"
    /\ \/ /\ gover' \in GoVersions
          /\ pc' = "loop"
          /\ UNCHANGED <<ret, existing>>
       \/ /\ ReturnErr("errGoVersion")
          /\ UNCHANGED gover
    /\ UNCHANGED <<upgrade, programs, i, skipped, failed, tempDir,
                   deferred, mkdirs, installs, report, parseVars, rebuildVars>>

\* the head of one iteration (lines 77-85)
Classify ==
    /\ pc = "loop" /\ i <= Len(programs)
    /\ LET p == programs[i]
           c == classify(upgrade, p, gover)
       IN  /\ skipped' = IF c = "skipped" THEN Append(skipped, p.path) ELSE skipped
           /\ i' = IF c = "rebuild" THEN i ELSE i + 1
           /\ pc' = IF c # "rebuild" THEN "loop"
                    ELSE IF needTempDir(tempDir) THEN "mkdirTemp" ELSE "rebuild"
    /\ UNCHANGED <<upgrade, programs, gover, failed, tempDir, deferred, existing,
                   mkdirs, installs, report, ret, parseVars, rebuildVars>>

\* lines 86-90
MkdirTemp ==
    /\ pc = "mkdirTemp"
    /\ \/ \E d \in TempNames \ existing :
            /\ tempDir' = d
            /\ existing' = existing \cup {d}
            /\ mkdirs' = mkdirs + 1
            /\ deferred' = deferred \cup {d}
            /\ pc' = "rebuild"
            /\ UNCHANGED ret
       \/ /\ tempDir' = ""
          /\ ReturnErr("errMkdirTemp")
          /\ UNCHANGED <<mkdirs, deferred>>
    /\ UNCHANGED <<upgrade, programs, gover, i, skipped, failed, installs, report,
                   parseVars, rebuildVars>>

\* mutant: a failed install ends the run
RebuildFailFast ==
    /\ pc = "rebuild"
    /\ \E runOk \in BOOLEAN :
        LET p == programs[i]
            r == rebuild(tempDir, installSpec(upgrade, p), runOk, i)
        IN  /\ installs' = installs \o r.cmds
            /\ failed' = IF r.err # "nil" THEN Append(failed, p.path) ELSE failed
            /\ IF r.err # "nil"
               THEN ReturnErr(r.err) /\ UNCHANGED i
               ELSE i' = i + 1 /\ pc' = "loop" /\ UNCHANGED <<ret, existing>>
    /\ UNCHANGED <<upgrade, programs, gover, skipped, tempDir, deferred,
                   mkdirs, report, parseVars, rebuildVars>>

\* lines 92-98
Rebuild ==
    /\ pc = "rebuild"
    /\ \E runOk \in BOOLEAN :
        LET p == programs[i]
            r == rebuild(tempDir, installSpec(upgrade, p), runOk, i)
        IN  /\ installs' = installs \o r.cmds
            /\ failed' = IF r.err # "nil" THEN Append(failed, p.path) ELSE failed
    /\ i' = i + 1
    /\ pc' = "loop"
    /\ UNCHANGED <<upgrade, programs, gover, skipped, tempDir, deferred, existing,
                   mkdirs, report, ret, parseVars, rebuildVars>>

\* mutant: run fails when an install failed
ReportFailing ==
    /\ pc = "loop" /\ i > Len(programs)
    /\ report' = render(skipped, failed)
    /\ ret' = IF Len(failed) # 0 THEN "errExit" ELSE "nil"
    /\ existing' = runDeferred(existing, deferred)
    /\ pc' = "returned"
    /\ UNCHANGED <<upgrade, programs, gover, i, skipped, failed, tempDir, deferred,
                   mkdirs, installs, parseVars, rebuildVars>>

\* the loop is over: the report, then return nil (lines 100-115)
Report ==
    /\ pc = "loop" /\ i > Len(programs)
    /\ report' = render(skipped, failed)
    /\ ret' = "nil"
    /\ existing' = runDeferred(existing, deferred)
    /\ pc' = "returned"
    /\ UNCHANGED <<upgrade, programs, gover, i, skipped, failed, tempDir, deferred,
                   mkdirs, installs, parseVars, rebuildVars>>

Next == GetGobin \/ InspectGobin \/ GoVersion \/ Classify \/ MkdirTemp \/ Rebuild \/ Report

Spec == Init /\ [][Next]_vars

(***************************************************************************)
(* rebuild called on any specification string                              *)
(***************************************************************************)
SpecChars == {"p", "v", At}

SpecStrings == UNION {[1..n -> SpecChars] : n \in 0..MaxSpecLen}

InitRebuild ==
    /\ pc = "call"
    /\ spec \in SpecStrings
    /\ tempDir \in TempNames
    /\ existing = {tempDir}
    /\ rerr = "none"
    /\ installs = <<>>
    /\ upgrade = FALSE /\ programs = <<>> /\ gover = <<>> /\ i = 1
    /\ skipped = <<>> /\ failed = <<>> /\ deferred = {} /\ mkdirs = 0
    /\ report = <<>> /\ ret = "none"
    /\ text = <<>> /\ current = ZeroProgram /\ out = <<>> /\ hist = <<>>

\* rebuild(tempDir, spec) (lines 118-128)
CallRebuild ==
    /\ pc = "call"
    /\ \E runOk \in BOOLEAN :
        LET r == rebuild(tempDir, spec, runOk, 0)
        IN  /\ rerr' = r.err
            /\ installs' = installs \o r.cmds
    /\ pc' = "called"
    /\ UNCHANGED <<spec, upgrade, programs, gover, i, skipped, failed, tempDir,
                   deferred, existing, mkdirs, report, ret, parseVars>>

NextRebuild == CallRebuild

SpecRebuild == InitRebuild /\ [][NextRebuild]_vars

(***************************************************************************)
(* Claims about inspectGobin (checked under SpecParse)                     *)
(***************************************************************************)
Max(S) == CHOOSE k \in S : \A j \in S : k >= j

RECURSIVE Ascending(_)
\* the members of a finite set of integers, smallest first
Ascending(S) == IF S = {} THEN <<>> ELSE <<Min(S)>> \o Ascending(S \ {Min(S)})

Populated(c) == c.path # <<>> /\ c.modVersion # <<>> /\ c.goVersion # <<>>

CountPopulated(h) == Cardinality({k \in DOMAIN h : Populated(h[k])})

\* C7 as stated: inspectGobin emits only valid records, and as many records
\* as there were moments (a boundary line, the end of input) at which the
\* candidate had all three fields populated, for every input text.
C7_EmittedEqualsPopulated ==
    /\ \A k \in DOMAIN out : Populated(out[k])
    /\ Len(out) = CountPopulated(hist)

\* C7 amended: the count holds for every input the scanner reads without an
\* error; when the scanner fails (a line longer than its buffer)
\* inspectGobin returns no record at all, whatever the candidates were.
C7_EmittedEqualsPopulatedUnlessScanError ==
    /\ \A k \in DOMAIN out : Populated(out[k])
    /\ pc # "err" => Len(out) = CountPopulated(hist)
    /\ pc = "err" => out = <<>>

\* C7 witness: the input ended, one candidate was emitted and another,
\* missing a field, was dropped.
C7_Witness ==
    /\ pc = "done"
    /\ Len(out) = 1
    /\ \E k \in DOMAIN hist : k > 1 /\ ~Populated(hist[k])

\* the places (1-based) at which ": " occurs in a line
SepPlaces(line) == {k \in 1..(Len(line) - 1) : line[k] = ":" /\ line[k + 1] = " "}

\* C8 as stated: every line treated as the start of a record begins with the
\* directory followed by a colon-delimited suffix, and the new candidate's
\* goVersion is the text that follows the first ": " of that line.
C8_BoundaryHasColonSuffix ==
    \A k \in DOMAIN text :
        (k = Len(text) /\ pc = "scan" /\ HasPrefix(text[k], Dir)) =>
            /\ \E j \in (Len(Dir) + 1)..Len(text[k]) : text[k][j] = ":"
            /\ SepPlaces(text[k]) # {}
            /\ current.goVersion =
                 SubSeq(text[k], Min(SepPlaces(text[k])) + 2, Len(text[k]))

\* the boundary lines of a text
Boundaries(t) == {k \in DOMAIN t : HasPrefix(t[k], Dir)}

\* the lines that belong to the record whose boundary line is b: those
\* strictly after b and before the next boundary line
Segment(t, b) ==
    LET later == {c \in Boundaries(t) : c > b}
        stop  == IF later = {} THEN Len(t) + 1 ELSE Min(later)
    IN  (b + 1)..(stop - 1)

SegPath(t, b) ==
    LET ks == {k \in Segment(t, b) : LET f == Fields(t[k]) IN Len(f) = 2 /\ f[1] = KwPath}
    IN  IF ks = {} THEN <<>> ELSE Fields(t[Max(ks)])[2]

SegMod(t, b) ==
    LET ks == {k \in Segment(t, b) : LET f == Fields(t[k]) IN Len(f) >= 3 /\ f[1] = KwMod}
    IN  IF ks = {} THEN <<>> ELSE Fields(t[Max(ks)])[3]

SegRecord(t, b) == Program(SegPath(t, b), SegMod(t, b), goVersionOf(t[b]))

\* the boundaries whose record is closed: all of them once the input has
\* ended, all but the last while the scan goes on
ClosedBoundaries(t) ==
    IF pc = "done" \/ Boundaries(t) = {} THEN Boundaries(t)
    ELSE Boundaries(t) \ {Max(Boundaries(t))}

EmittedBoundaries(t) ==
    Ascending({b \in ClosedBoundaries(t) : Populated(SegRecord(t, b))})

\* C10: the emitted records are, in the order of their boundary lines, the
\* records whose path and modVersion come from the last "path" line and the
\* last "mod" line lying strictly between the record's own boundary line and
\* the next one; lines before the first boundary and lines of a dropped
\* candidate reach no emitted record.
C10_RecordsDoNotContaminate ==
    pc # "err" =>
        LET bs == EmittedBoundaries(text) IN
        /\ Len(out) = Len(bs)
        /\ \A k \in DOMAIN out : out[k] = SegRecord(text, bs[k])

\* C10 witness: two records with different paths were emitted from one input.
C10_Witness ==
    /\ pc = "done"
    /\ Len(out) = 2
    /\ out[1].path # out[2].path


(***************************************************************************)
(* Claims about run (checked under Spec)                                   *)
(***************************************************************************)
\* the records the loop has finished with
Processed == SubSeq(programs, 1, i - 1)

PathsOf(rs) == [k \in DOMAIN rs |-> rs[k].path]

IsDevel(r) == r.modVersion = Devel

SameToolchain(r) == ~upgrade /\ r.goVersion = gover

DevelAndDue(r) == IsDevel(r) /\ ~SameToolchain(r)

\* a record the claims expect an install for
Rebuildable(r) == ~IsDevel(r) /\ (upgrade \/ r.goVersion # gover)

ExpectedSpec(r) == r.path \o <<"@">> \o (IF upgrade THEN Latest ELSE r.modVersion)

RecsOf(cmds) == [k \in DOMAIN cmds |-> cmds[k].rec]

DiscoveryErrors == {"errGetGobin", "errInspectGobin", "errGoVersion"}

\* the item lines that follow header h in a report, up to the next header
SectionItems(rep, h) ==
    LET hs == {k \in DOMAIN rep : rep[k].kind = h}
    IN  IF hs = {} THEN <<>>
        ELSE LET from == Min(hs)
                 stops == {k \in DOMAIN rep : k > from /\ rep[k].kind # "item"}
                 to == IF stops = {} THEN Len(rep) ELSE Min(stops) - 1
             IN  [k \in 1..(to - from) |-> rep[from + k].s]

\* C1 as stated: every "(devel)" record the loop has gone through has its
\* path in the skipped list, whatever the flag and its goVersion, and no
\* install is invoked for a "(devel)" record.
C1_DevelAlwaysSkippedUnrebuildable ==
    /\ skipped = PathsOf(SelectSeq(Processed, IsDevel))
    /\ \A k \in DOMAIN installs : ~IsDevel(programs[installs[k].rec])

\* C1 amended: a "(devel)" record is appended to the skipped list exactly
\* when upgrade is true or its goVersion differs from the active version
\* (with upgrade false and an equal goVersion it is passed over in silence);
\* the skipped list is reported when run reaches its end; no install is
\* ever invoked for a "(devel)" record.
C1_DevelSkippedUnlessSameToolchain ==
    /\ skipped = PathsOf(SelectSeq(Processed, DevelAndDue))
    /\ \A k \in DOMAIN installs : ~IsDevel(programs[installs[k].rec])
    /\ (pc = "returned" /\ ret = "nil") =>
          SectionItems(report, "skippedHeader") = skipped

\* C1 witness: run has ended; with upgrade one "(devel)" record of the active
\* toolchain version was reported.
C1_Witness ==
    /\ pc = "returned" /\ ret = "nil" /\ upgrade
    /\ \E k \in DOMAIN programs : IsDevel(programs[k]) /\ programs[k].goVersion = gover
    /\ Len(skipped) = 1
    /\ installs # <<>>

\* C2: a step of the loop at a record whose goVersion equals the active
\* version, with upgrade false, goes on to the next record and leaves the
\* skipped list, the failed list, the scratch directory and the install log
\* as they were.
C2_SameToolchainSkipped ==
    [][(pc = "loop" /\ i <= Len(programs) /\ ~upgrade /\ programs[i].goVersion = gover)
        => /\ i' = i + 1
           /\ pc' = "loop"
           /\ UNCHANGED <<skipped, failed, tempDir, existing, mkdirs, installs>>]_vars

\* C2 witness: with upgrade false the loop has gone past a "(devel)" record
\* of the active toolchain version, and past a rebuilt record.
C2_Witness ==
    /\ pc = "loop" /\ ~upgrade /\ i = 3
    /\ programs[2].goVersion = gover /\ IsDevel(programs[2])
    /\ Len(installs) = 1
    /\ skipped = <<>>

\* the indexes of the records that need a rebuild, in input order
RebuildableIndexes(n) == Ascending({k \in 1..n : Rebuildable(programs[k])})

\* C3 as stated: once discovery has succeeded, every record that is not
\* "(devel)" and that upgrade or a differing goVersion selects gets exactly
\* one install, "<path>@latest" with upgrade and "<path>@<modVersion>" without.
C3_EveryRebuildableInstalledOnce ==
    (pc = "returned" /\ ret \notin DiscoveryErrors) =>
        LET ks == RebuildableIndexes(Len(programs)) IN
        /\ RecsOf(installs) = ks
        /\ \A k \in DOMAIN installs : installs[k].spec = ExpectedSpec(programs[ks[k]])

\* C3 amended: the same, for the records the loop has gone through; run goes
\* through all of them unless creating the scratch directory fails, which
\* ends run before any install.
C3_ProcessedRebuildableInstalledOnce ==
    LET ks == RebuildableIndexes(i - 1) IN
    /\ RecsOf(installs) = ks
    /\ \A k \in DOMAIN installs : installs[k].spec = ExpectedSpec(programs[ks[k]])
    /\ (pc = "returned" /\ ret = "nil") => i = Len(programs) + 1
    /\ (pc = "returned" /\ ret = "errMkdirTemp") => installs = <<>>

\* C3 witness: run has ended with upgrade, having installed "@latest" for a
\* record of the active toolchain version.
C3_Witness ==
    /\ pc = "returned" /\ upgrade
    /\ \E k \in DOMAIN installs :
          /\ programs[installs[k].rec].goVersion = gover
          /\ installs[k].spec = programs[installs[k].rec].path \o <<"@">> \o Latest

FailedInstalls == SelectSeq(installs, LAMBDA c : ~c.ok)

\* C4: the failed list is, in input order, the paths of the records whose
\* install returned failure; and a run in which an install failed still goes
\* through every record, installing each record that needs a rebuild, in
\* input order, and returns nil.
C4_FailureNeverHaltsBatch ==
    /\ failed = [k \in DOMAIN FailedInstalls |-> programs[FailedInstalls[k].rec].path]
    /\ RecsOf(installs) = RebuildableIndexes(i - 1)
    /\ (FailedInstalls # <<>> /\ pc = "returned") =>
          /\ ret = "nil"
          /\ i = Len(programs) + 1
          /\ RecsOf(installs) = RebuildableIndexes(Len(programs))

\* C4 witness: the first install failed, a later record was skipped as
\* "(devel)" and a still later one was installed with success.
C4_Witness ==
    /\ pc = "returned"
    /\ Len(installs) = 2 /\ ~installs[1].ok /\ installs[2].ok
    /\ Len(skipped) = 1
    /\ Len(failed) = 1

\* what the report must hold for the two lists
ExpectedSection(h, xs) ==
    IF xs = <<>> THEN <<>>
    ELSE <<[kind |-> h, s |-> <<>>]>> \o [k \in DOMAIN xs |-> [kind |-> "item", s |-> xs[k]]]

ExpectedReport ==
    ExpectedSection("skippedHeader", skipped) \o ExpectedSection("failedHeader", failed)

\* C5 as stated: run returns an error only when a discovery step failed;
\* otherwise it has gone through every record, emitted the report and
\* returned nil.
C5_OnlyDiscoveryErrors ==
    pc = "returned" =>
        /\ ret \in DiscoveryErrors \cup {"nil"}
        /\ ret = "nil" => (i = Len(programs) + 1 /\ report = ExpectedReport)

\* C5 amended: run returns an error only when a discovery step or the
\* creation of the scratch directory failed, never because an install failed;
\* when it returns nil it has gone through every record and emitted the
\* report; when the scratch directory could not be created it returns at
\* once, with no install and no report.
C5_OnlyDiscoveryOrMkdirErrors ==
    pc = "returned" =>
        /\ ret \in DiscoveryErrors \cup {"nil", "errMkdirTemp"}
        /\ ret = "nil" => (i = Len(programs) + 1 /\ report = ExpectedReport)
        /\ ret = "errMkdirTemp" => (installs = <<>> /\ report = <<>>)
        /\ FailedInstalls # <<>> => ret = "nil"

\* C5 witness: run returned nil although an install failed and a record was
\* skipped as "(devel)".
C5_Witness ==
    /\ pc = "returned" /\ ret = "nil"
    /\ failed # <<>> /\ skipped # <<>>
    /\ Len(report) >= 4

\* C6: the scratch directory is created at most once, only in a run with a
\* record that needs a rebuild and only right before the first install;
\* every install runs in that one directory, which exists then; and when
\* run has returned no scratch directory is left.
C6_ScratchDirectoryLifecycle ==
    /\ mkdirs <= 1
    /\ Cardinality(existing) <= 1
    /\ mkdirs = 1 => \E k \in DOMAIN programs : Rebuildable(programs[k])
    /\ (mkdirs = 1 /\ installs = <<>>) => pc = "rebuild"
    /\ installs # <<>> => mkdirs = 1
    /\ \A k \in DOMAIN installs : installs[k].dir = tempDir /\ tempDir # ""
    /\ (mkdirs = 1 /\ pc # "returned") => existing = {tempDir}
    /\ pc = "returned" => existing = {}

\* C6 witness: run has returned after two installs in the one scratch
\* directory it made.
C6_Witness ==
    /\ pc = "returned"
    /\ mkdirs = 1
    /\ Len(installs) = 2
    /\ installs[1].dir = installs[2].dir

(***************************************************************************)
(* Claims about rebuild (checked under SpecRebuild)                        *)
(***************************************************************************)
CountOf(s, c) == Cardinality({k \in DOMAIN s : s[k] = c})

\* C9 as stated: rebuild invokes the install action only for a specification
\* that is non-empty and holds exactly one '@'; for any other it returns the
\* invalid-spec error and invokes nothing.
C9_ExactlyOneAt ==
    pc = "called" =>
        IF spec # <<>> /\ CountOf(spec, "@") = 1
        THEN rerr # "errInvalidSpec"
        ELSE rerr = "errInvalidSpec" /\ installs = <<>>

\* C9 amended: rebuild returns the invalid-spec error, invoking nothing,
\* exactly for a specification that is empty or holds no '@'; a specification
\* with one '@' or more is handed to the install action, in the given directory.
C9_AtLeastOneAt ==
    pc = "called" =>
        IF CountOf(spec, "@") >= 1
        THEN /\ rerr \in {"nil", "errExit"}
             /\ Len(installs) = 1
             /\ installs[1].spec = spec /\ installs[1].dir = tempDir
             /\ installs[1].ok <=> rerr = "nil"
        ELSE rerr = "errInvalidSpec" /\ installs = <<>>

\* C9 witness: a specification with no '@' in it was refused.
C9_Witness ==
    /\ pc = "called"
    /\ spec # <<>> /\ CountOf(spec, "@") = 0
    /\ rerr = "errInvalidSpec"

=============================================================================
